---- MODULE Spec2Model ----
(***************************************************************************)
(* A model of qsimov_cloud_client.py: the QsimovCloudClient request        *)
(* builder (its _data dictionary, the setters, _send_request and the four  *)
(* operation invokers), the SuperpositionCircuit result and parse_number.  *)
(*                                                                         *)
(* Python values are records tagged with their Python type, so that the    *)
(* code's "is None" and isinstance tests are tests on the tag.  A string   *)
(* whose characters the code inspects (a bit string, a number literal, a   *)
(* wire token) is a sequence of one-character strings; a string the code   *)
(* only compares as a whole (token, metric, modes, versions) is atomic.    *)
(***************************************************************************)
EXTENDS Integers, Sequences, FiniteSets, TLC

VARIABLES data, last, held, conc

vars == <<data, last, held, conc>>

-----------------------------------------------------------------------------
(* Bounds of the model. *)

\* num_qubits arguments range over -1..MaxQubits, bit strings have at most
\* MaxQubits characters
MaxQubits == 2

\* set_distances is called with at most MaxDist elements
MaxDist == 2

\* largest numerator and denominator of the number literals parsed
MaxNum == 4

-----------------------------------------------------------------------------
(* Python values *)

PyNone == [type |-> "NoneType"]

PyStr(s) == [type |-> "str", v |-> s]

PyInt(n) == [type |-> "int", v |-> n]

PyBool(b) == [type |-> "bool", v |-> b]

PyList(items) == [type |-> "list", v |-> items]

PyTuple(items) == [type |-> "tuple", v |-> items]

\* sympy.Rational(p, q) in lowest terms, q > 0
SpRational(p, q) == [type |-> "Rational", p |-> p, q |-> q]

\* sympy.nan, the singleton sp.Rational(0, 0) evaluates to
SpNaN == [type |-> "NaN"]

\* float('inf')
FloatInf == [type |-> "float", v |-> "inf"]

IsNone(x) == x.type = "NoneType"

\* dict deletion: del values[k]
Del(values, k) == [f \in DOMAIN values \ {k} |-> values[f]]

\* dict assignment: values[k] = x (k may be a new key)
Put(values, k, x) == [f \in DOMAIN values \cup {k} |-> IF f = k THEN x ELSE values[f]]

-----------------------------------------------------------------------------
(* Text: sequences of characters *)

DigitChars == <<"0", "1", "2", "3", "4", "5", "6", "7", "8", "9">>

IsDigit(c) == \E i \in 1..10 : DigitChars[i] = c

DigitVal(c) == (CHOOSE i \in 1..10 : DigitChars[i] = c) - 1

\* str.lower() on the letters the literals of the model use
LowerChar(c) ==
    CASE c = "N" -> "n"
      [] c = "A" -> "a"
      [] c = "I" -> "i"
      [] c = "F" -> "f"
      [] OTHER -> c

Lower(s) == [i \in 1..Len(s) |-> LowerChar(s[i])]

AllDigits(s) == Len(s) > 0 /\ \A i \in 1..Len(s) : IsDigit(s[i])

RECURSIVE DigitsToNat(_)
DigitsToNat(s) ==
    IF Len(s) = 0 THEN 0
    ELSE 10 * DigitsToNat(SubSeq(s, 1, Len(s) - 1)) + DigitVal(s[Len(s)])

RECURSIVE NatToStr(_)
NatToStr(n) ==
    IF n < 10 THEN <<DigitChars[n + 1]>>
    ELSE NatToStr(n \div 10) \o <<DigitChars[(n % 10) + 1]>>

IntToStr(n) == IF n < 0 THEN <<"-">> \o NatToStr(0 - n) ELSE NatToStr(n)

RECURSIVE Pow(_, _)
Pow(b, e) == IF e = 0 THEN 1 ELSE b * Pow(b, e - 1)

Abs(n) == IF n < 0 THEN 0 - n ELSE n

RECURSIVE Gcd(_, _)
Gcd(a, b) == IF b = 0 THEN a ELSE Gcd(b, a % b)

\* position of the first occurrence of c in s, 0 when absent
IndexOf(s, c) ==
    IF \E i \in 1..Len(s) : s[i] = c
    THEN CHOOSE i \in 1..Len(s) : s[i] = c /\ \A j \in 1..(i - 1) : s[j] # c
    ELSE 0

-----------------------------------------------------------------------------
(* parse_number and the rendering of its values *)

\* sp.Rational(p, q) for integers p and q # 0: lowest terms, positive denominator
Normalize(p, q) ==
    LET g == Gcd(Abs(p), Abs(q))
        s == IF q < 0 THEN 0 - 1 ELSE 1
    IN  SpRational((s * p) \div g, (s * q) \div g)

\* an optionally signed run of digits
IsIntLit(s) ==
    \/ AllDigits(s)
    \/ Len(s) > 1 /\ s[1] = "-" /\ AllDigits(Tail(s))

IntLitVal(s) == IF s[1] = "-" THEN 0 - DigitsToNat(Tail(s)) ELSE DigitsToNat(s)

\* sp.Rational(text): integer literals, "p/q" fractions and decimal literals;
\* any other text, and a zero denominator, raises
RationalOfText(s) ==
    LET slash == IndexOf(s, "/")
        dot   == IndexOf(s, ".")
    IN  IF slash > 0
        THEN LET ps == SubSeq(s, 1, slash - 1)
                 qs == SubSeq(s, slash + 1, Len(s))
             IN  IF IsIntLit(ps) /\ IsIntLit(qs) /\ IntLitVal(qs) # 0
                 THEN [raised |-> FALSE, value |-> Normalize(IntLitVal(ps), IntLitVal(qs))]
                 ELSE [raised |-> TRUE, value |-> PyNone]
        ELSE IF dot > 0
        THEN LET ip == SubSeq(s, 1, dot - 1)
                 fp == SubSeq(s, dot + 1, Len(s))
             IN  IF IsIntLit(ip) /\ AllDigits(fp)
                 THEN [raised |-> FALSE,
                       value |-> Normalize(IntLitVal(ip \o fp), Pow(10, Len(fp)))]
                 ELSE [raised |-> TRUE, value |-> PyNone]
        ELSE IF IsIntLit(s)
        THEN [raised |-> FALSE, value |-> Normalize(IntLitVal(s), 1)]
        ELSE [raised |-> TRUE, value |-> PyNone]

\* parse_number comparing the text itself, not its lower case
parse_number_case_sensitive(number) ==
    IF number = <<"n", "a", "n">> \/ number = <<"0", "/", "0">>
    THEN [raised |-> FALSE, value |-> SpNaN]
    ELSE IF number = <<"i", "n", "f">>
    THEN [raised |-> FALSE, value |-> FloatInf]
    ELSE RationalOfText(number)

\* parse_number(number): number is the text str(number)
parse_number(number) ==
    IF Lower(number) = <<"n", "a", "n">> \/ number = <<"0", "/", "0">>
    THEN [raised |-> FALSE, value |-> SpNaN]
    ELSE IF Lower(number) = <<"i", "n", "f">>
    THEN [raised |-> FALSE, value |-> FloatInf]
    ELSE RationalOfText(number)

\* str with infinity rendered as sympy renders its own infinity, "oo"
str_sympy_oo(x) ==
    CASE x.type = "NaN" -> <<"n", "a", "n">>
      [] x.type = "float" -> <<"o", "o">>
      [] x.type = "Rational" ->
            IF x.q = 1 THEN IntToStr(x.p)
            ELSE IntToStr(x.p) \o <<"/">> \o IntToStr(x.q)

\* str(x) of a value parse_number returns
str(x) ==
    CASE x.type = "NaN" -> <<"n", "a", "n">>
      [] x.type = "float" -> <<"i", "n", "f">>
      [] x.type = "Rational" ->
            IF x.q = 1 THEN IntToStr(x.p)
            ELSE IntToStr(x.p) \o <<"/">> \o IntToStr(x.q)

\* x != sp.nan
NeNaN(x) == x.type # "NaN"

\* > with the operands exchanged
Gt_reversed(a, b) ==
    CASE a.type = "Rational" /\ b.type = "Rational" -> b.p * a.q > a.p * b.q
      [] a.type = "float" /\ b.type = "Rational" -> FALSE
      [] a.type = "Rational" /\ b.type = "float" -> TRUE
      [] a.type = "float" /\ b.type = "float" -> FALSE

\* > with float('inf') left out of the ordering
Gt_inf_unordered(a, b) ==
    CASE a.type = "Rational" /\ b.type = "Rational" -> a.p * b.q > b.p * a.q
      [] a.type = "float" /\ b.type = "Rational" -> FALSE
      [] a.type = "Rational" /\ b.type = "float" -> FALSE
      [] a.type = "float" /\ b.type = "float" -> FALSE

\* a > b for values that are not sp.nan: Rational against Rational by cross
\* multiplication, float('inf') above every Rational and not above itself
Gt(a, b) ==
    CASE a.type = "Rational" /\ b.type = "Rational" -> a.p * b.q > b.p * a.q
      [] a.type = "float" /\ b.type = "Rational" -> TRUE
      [] a.type = "Rational" /\ b.type = "float" -> FALSE
      [] a.type = "float" /\ b.type = "float" -> FALSE

-----------------------------------------------------------------------------
(* Module constants *)

\* _bin_regex = re.compile(r"^[01]+$"), used with match(): one or more of
\* the characters 0 and 1, up to the end of the string or up to a single
\* line feed that ends the string ($ also matches just before it)
IsBits(s) == Len(s) > 0 /\ \A i \in 1..Len(s) : s[i] \in {"0", "1"}

_bin_regex_match(s) ==
    \/ IsBits(s)
    \/ Len(s) > 1 /\ s[Len(s)] = "\n" /\ IsBits(SubSeq(s, 1, Len(s) - 1))

_services ==
    {"extra_qubits_service", "distances_range_service", "circuit_service",
     "total_states_superposed_service"}

_ancilla_modes == {"clean", "noancilla", "garbage", "borrowed", "burnable"}

-----------------------------------------------------------------------------
(* QsimovCloudClient: construction and setters.  A setter is an operator   *)
(* from the dictionary self._data and the arguments to the outcome of the  *)
(* call: whether it raised, and the dictionary it leaves.                  *)

\* QsimovCloudClient.__init__(token)
NewData(token) ==
    [token |-> PyStr(token), metric |-> PyNone, n_qubits |-> PyNone,
     state |-> PyNone, state_bin |-> PyNone, distances |-> PyNone,
     min_range |-> PyNone, max_range |-> PyNone, with_nan |-> PyNone,
     ancilla_mode |-> PyStr("clean"), qasm_version |-> PyStr("2.0")]

\* the outcome of a call that raises exception e, and of one that returns
Raise(d, e) == [raised |-> e, data |-> d]

Return(d) == [raised |-> "none", data |-> d]

\* set_metric storing its argument without looking at it
set_metric_unchecked(d, metric) == Return([d EXCEPT !.metric = metric])

set_metric(d, metric) ==
    IF metric.type # "str" \/ metric.v = ""
    THEN Raise(d, "ValueError")
    ELSE Return([d EXCEPT !.metric = metric])

set_ancilla_mode(d, ancilla_mode) ==
    IF ~(ancilla_mode.type = "str" /\ ancilla_mode.v \in _ancilla_modes)
    THEN Raise(d, "ValueError")
    ELSE Return([d EXCEPT !.ancilla_mode = ancilla_mode])

set_qasm_version(d, qasm_version) ==
    IF ~(qasm_version.type = "str" /\ qasm_version.v \in {"2.0", "3.0"})
    THEN Raise(d, "ValueError")
    ELSE Return([d EXCEPT !.qasm_version = qasm_version])

\* state >= 2**num_qubits; for a negative num_qubits 2**num_qubits is a
\* float strictly between 0 and 1
GePow2(state, num_qubits) ==
    IF num_qubits >= 0 THEN state >= Pow(2, num_qubits) ELSE state >= 1

\* set_state without the line self._data["state_bin"] = None
set_state_keeps_bin(d, state_bin, num_qubits, state) ==
    IF IsNone(state_bin)
    THEN IF IsNone(num_qubits) \/ IsNone(state)
         THEN Raise(d, "ValueError")
         ELSE IF state.v < 0 \/ GePow2(state.v, num_qubits.v)
         THEN Raise(d, "ValueError")
         ELSE Return([d EXCEPT !.n_qubits = num_qubits, !.state = state])
    ELSE IF state_bin.type # "str" \/ ~_bin_regex_match(state_bin.v)
         THEN Raise(d, "ValueError")
         ELSE Return([d EXCEPT !.n_qubits = PyNone,
                               !.state = PyNone,
                               !.state_bin = state_bin])

set_state(d, state_bin, num_qubits, state) ==
    IF IsNone(state_bin)
    THEN IF IsNone(num_qubits) \/ IsNone(state)
         THEN Raise(d, "ValueError")
         ELSE IF state.v < 0 \/ GePow2(state.v, num_qubits.v)
         THEN Raise(d, "ValueError")
         ELSE Return([d EXCEPT !.n_qubits = num_qubits,
                               !.state = state,
                               !.state_bin = PyNone])
    ELSE IF state_bin.type # "str" \/ ~_bin_regex_match(state_bin.v)
         THEN Raise(d, "ValueError")
         ELSE Return([d EXCEPT !.n_qubits = PyNone,
                               !.state = PyNone,
                               !.state_bin = state_bin])

\* the assignments of the index form without the last one, line 124
index_write_keeps_bin(d, line, num_qubits, state) ==
    CASE line = "line122" -> [d EXCEPT !.n_qubits = num_qubits]
      [] line = "line123" -> [d EXCEPT !.state = state]
      [] line = "line124" -> d

\* self._data after the assignment the index form of set_state makes at line
index_write(d, line, num_qubits, state) ==
    CASE line = "line122" -> [d EXCEPT !.n_qubits = num_qubits]
      [] line = "line123" -> [d EXCEPT !.state = state]
      [] line = "line124" -> [d EXCEPT !.state_bin = PyNone]

\* self._data after the assignment the binary form of set_state makes at line
bin_write(d, line, state_bin) ==
    CASE line = "line133" -> [d EXCEPT !.n_qubits = PyNone]
      [] line = "line134" -> [d EXCEPT !.state = PyNone]
      [] line = "line135" -> [d EXCEPT !.state_bin = state_bin]

\* the line after an assignment of set_state; the call returns after the
\* third assignment of its form
next_line ==
    [line122 |-> "line123", line123 |-> "line124", line124 |-> "returned",
     line133 |-> "line134", line134 |-> "line135", line135 |-> "returned"]

can_have_nan(d, value) ==
    IF value.type # "bool"
    THEN Raise(d, "ValueError")
    ELSE Return([d EXCEPT !.with_nan = value])

\* set_range with the list cleared before the endpoints are compared
set_range_clears_first(d, distance_range) ==
    IF Len(distance_range) < 2
    THEN Raise(d, "IndexError")
    ELSE LET pmin == parse_number(distance_range[1])
             pmax == parse_number(distance_range[2])
             cleared == [d EXCEPT !.distances = PyNone]
         IN  IF pmin.raised \/ pmax.raised
             THEN Raise(d, "TypeError")
             ELSE IF NeNaN(pmin.value) /\ NeNaN(pmax.value) /\ Gt(pmin.value, pmax.value)
             THEN Raise(cleared, "ValueError")
             ELSE Return([cleared EXCEPT !.min_range = pmin.value,
                                         !.max_range = pmax.value])

\* distance_range is a sequence of number texts; distance_range[1] of a
\* shorter sequence raises IndexError
set_range(d, distance_range) ==
    IF Len(distance_range) < 2
    THEN Raise(d, "IndexError")
    ELSE LET pmin == parse_number(distance_range[1])
             pmax == parse_number(distance_range[2])
         IN  IF pmin.raised \/ pmax.raised
             THEN Raise(d, "TypeError")
             ELSE LET min_range == pmin.value
                      max_range == pmax.value
                  IN  IF NeNaN(min_range) /\ NeNaN(max_range) /\ Gt(min_range, max_range)
                      THEN Raise(d, "ValueError")
                      ELSE Return([d EXCEPT !.distances = PyNone,
                                            !.min_range = min_range,
                                            !.max_range = max_range])

\* set_distances without the lines that set min_range and max_range to None
set_distances_keeps_range(d, distances) ==
    IF distances.type \notin {"list", "tuple", "str"} \/ distances.type = "str"
    THEN Raise(d, "ValueError")
    ELSE LET parsed == [i \in 1..Len(distances.v) |-> parse_number(distances.v[i])]
         IN  IF \E i \in 1..Len(parsed) : parsed[i].raised
             THEN Raise(d, "TypeError")
             ELSE Return([d EXCEPT
                     !.distances = PyTuple([i \in 1..Len(parsed) |-> parsed[i].value])])

\* distances is a Python value; a list holds number texts
set_distances(d, distances) ==
    IF distances.type \notin {"list", "tuple", "str"} \/ distances.type = "str"
    THEN Raise(d, "ValueError")
    ELSE LET parsed == [i \in 1..Len(distances.v) |-> parse_number(distances.v[i])]
         IN  IF \E i \in 1..Len(parsed) : parsed[i].raised
             THEN Raise(d, "TypeError")
             ELSE Return([d EXCEPT
                     !.distances = PyTuple([i \in 1..Len(parsed) |-> parsed[i].value]),
                     !.min_range = PyNone,
                     !.max_range = PyNone])

-----------------------------------------------------------------------------
(* QsimovCloudClient._send_request and _post *)

PyDict(f) == [type |-> "dict", v |-> f]

EmptyDict == [f \in {} |-> PyNone]

\* the three services that need with_nan and a distance domain
DistanceServices ==
    {"circuit_service", "total_states_superposed_service", "extra_qubits_service"}

\* the checks of _send_request without the one on with_nan
precondition_skips_with_nan(d, service) ==
    \/ IsNone(d.metric)
    \/ IsNone(d.state_bin) /\ IsNone(d.n_qubits)
    \/ service \notin _services
    \/ /\ service \in DistanceServices
       /\ IsNone(d.distances) /\ IsNone(d.min_range)

\* the ValueError checks of _send_request: TRUE when one of them raises
precondition_fails(d, service) ==
    \/ IsNone(d.metric)
    \/ IsNone(d.state_bin) /\ IsNone(d.n_qubits)
    \/ service \notin _services
    \/ /\ service \in DistanceServices
       /\ \/ IsNone(d.with_nan)
          \/ IsNone(d.distances) /\ IsNone(d.min_range)

\* shape_distances without the deletion of ancilla_mode and qasm_version
shape_distances_keeps_options(values, service) ==
    IF service \in DistanceServices
    THEN IF IsNone(values.distances)
         THEN [Del(values, "distances") EXCEPT
                  !["min_range"] = PyStr(str(values.min_range)),
                  !["max_range"] = PyStr(str(values.max_range))]
         ELSE [Del(Del(values, "min_range"), "max_range") EXCEPT
                  !["distances"] =
                      PyList([i \in 1..Len(values.distances.v) |->
                                 PyStr(str(values.distances.v[i]))])]
    ELSE Del(Del(Del(Del(values, "with_nan"), "distances"), "min_range"), "max_range")

\* the distance and option fields of the request, from values = self._data.copy()
shape_distances(values, service) ==
    IF service \in DistanceServices
    THEN IF IsNone(values.distances)
         THEN [Del(values, "distances") EXCEPT
                  !["min_range"] = PyStr(str(values.min_range)),
                  !["max_range"] = PyStr(str(values.max_range))]
         ELSE [Del(Del(values, "min_range"), "max_range") EXCEPT
                  !["distances"] =
                      PyList([i \in 1..Len(values.distances.v) |->
                                 PyStr(str(values.distances.v[i]))])]
    ELSE Del(Del(Del(Del(Del(Del(values, "with_nan"), "distances"), "min_range"),
                     "max_range"), "ancilla_mode"), "qasm_version")

\* shape_state without the line del values["n_qubits"]
shape_state_keeps_n_qubits(values) ==
    IF IsNone(values.state_bin)
    THEN Del(values, "state_bin")
    ELSE Del(values, "state")

\* the state fields of the request
shape_state(values) ==
    IF IsNone(values.state_bin)
    THEN Del(values, "state_bin")
    ELSE Del(Del(values, "state"), "n_qubits")

\* the dictionary handed to _post
build_values(d, service) ==
    Put(shape_state(shape_distances(d, service)), "service", PyStr(service))

\* res.raise_for_status(): an HTTPError for a 4xx or 5xx status
raise_for_status(status_code) == 400 <= status_code /\ status_code < 600

\* retries = Retry(total=5, backoff_factor=0.1, status_forcelist=[...]):
\* built by _post and mounted on nothing
retries == [total |-> 5, status_forcelist |-> {500, 502, 503, 504}]

\* HTTPAdapter(max_retries=3), the adapter _post mounts: Retry.from_int(3),
\* whose status_forcelist is empty
max_retries == [total |-> 3, status_forcelist |-> {}]

\* the answer to the i-th attempt: the service answers the attempts in the
\* order of answers and repeats the last of them
AnswerTo(answers, i) == answers[IF i <= Len(answers) THEN i ELSE Len(answers)]

\* s.post under the retry policy of the mounted adapter, from attempt i on:
\* a status of the status_forcelist is attempted again while retries
\* remain, and is a RetryError when they are used up
RECURSIVE post_from(_, _, _)
post_from(policy, answers, i) ==
    LET res == AnswerTo(answers, i)
    IN  IF res.status_code \in policy.status_forcelist
        THEN IF i > policy.total
             THEN [raised |-> "RetryError", res |-> PyNone, attempts |-> i]
             ELSE post_from(policy, answers, i + 1)
        ELSE [raised |-> "none", res |-> res, attempts |-> i]

\* the adapter mounted for https://
mounted == max_retries

\* _post(values): s.post through the mounted adapter, then raise_for_status
\* on the final response; answers is what the service answers, attempt by
\* attempt
_post(values, answers) ==
    LET sent == post_from(mounted, answers, 1)
    IN  IF sent.raised # "none"
        THEN [raised |-> sent.raised, res |-> PyNone]
        ELSE IF raise_for_status(sent.res.status_code)
        THEN [raised |-> "HTTPError", res |-> PyNone]
        ELSE [raised |-> "none", res |-> sent.res]

\* res.json(): the decoded body, or a JSONDecodeError
json_fails(res) == res.body.type # "dict"

\* self._data after a request was shaped into values with the fields of d
\* taken over unshaped: values is self._data itself
self_data_aliased(d, values) == values

\* self._data after a request was shaped into values: values is
\* self._data.copy(), so the deletions and assignments that shape the request
\* leave self._data as it was
self_data_after(d, values) == d

\* self._data after _send_request(service)
data_after_request(d, service) ==
    IF precondition_fails(d, service) THEN d
    ELSE self_data_after(d, build_values(d, service))

\* _send_request(service), answers being what the service answers
_send_request(d, service, answers) ==
    IF precondition_fails(d, service)
    THEN [raised |-> "ValueError", posted |-> PyNone, value |-> PyNone]
    ELSE LET values == build_values(d, service)
             p == _post(values, answers)
         IN  IF p.raised # "none"
             THEN [raised |-> p.raised, posted |-> PyDict(values), value |-> PyNone]
             ELSE IF json_fails(p.res)
             THEN [raised |-> "JSONDecodeError", posted |-> PyDict(values),
                   value |-> PyNone]
             ELSE IF "response" \notin DOMAIN p.res.body.v
             THEN [raised |-> "KeyError", posted |-> PyDict(values), value |-> PyNone]
             ELSE [raised |-> "none", posted |-> PyDict(values),
                   value |-> p.res.body.v["response"]]

-----------------------------------------------------------------------------
(* SuperpositionCircuit *)

RECURSIVE NatToBin(_)
NatToBin(n) ==
    IF n < 2 THEN <<DigitChars[n + 1]>>
    ELSE NatToBin(n \div 2) \o <<DigitChars[(n % 2) + 1]>>

RECURSIVE Zeros(_)
Zeros(k) == IF k <= 0 THEN <<>> ELSE <<"0">> \o Zeros(k - 1)

\* "{:b}".format(n): no padding
format_bin_unpadded(width, n) == NatToBin(n)

\* ("{:0" + str(width) + "b}").format(n) for width >= 0 and n >= 0
format_bin(width, n) == Zeros(width - Len(NatToBin(n))) \o NatToBin(n)

RECURSIVE BitsToNat(_)
BitsToNat(s) ==
    IF Len(s) = 0 THEN 0
    ELSE 2 * BitsToNat(SubSeq(s, 1, Len(s) - 1)) + DigitVal(s[Len(s)])

\* int(s, 2) of a string _bin_regex accepts: int() strips surrounding whitespace
int2(s) ==
    IF s[Len(s)] = "\n" THEN BitsToNat(SubSeq(s, 1, Len(s) - 1)) ELSE BitsToNat(s)

ResultFields == {"qasm_circuit", "extra_qubits", "total_states_superposed"}

\* SuperpositionCircuit.__init__(data, res)
SuperpositionCircuit(d, res) ==
    IF IsNone(d.state_bin) /\ d.n_qubits.v < 0
    THEN [raised |-> "ValueError", obj |-> PyNone]
    ELSE IF ~(ResultFields \subseteq DOMAIN res)
    THEN [raised |-> "KeyError", obj |-> PyNone]
    ELSE [raised |-> "none",
          obj |-> [type |-> "SuperpositionCircuit",
                   metric |-> d.metric,
                   n_qubits |-> IF IsNone(d.state_bin) THEN d.n_qubits
                                ELSE PyInt(Len(d.state_bin.v)),
                   state |-> IF IsNone(d.state_bin) THEN d.state
                             ELSE PyInt(int2(d.state_bin.v)),
                   bin |-> IF IsNone(d.state_bin)
                           THEN PyStr(format_bin(d.n_qubits.v, d.state.v))
                           ELSE d.state_bin,
                   distances |-> d.distances,
                   min_range |-> d.min_range,
                   max_range |-> d.max_range,
                   with_nan |-> d.with_nan,
                   qasm_version |-> d.qasm_version,
                   ancilla_mode |-> d.ancilla_mode,
                   qasm |-> res["qasm_circuit"],
                   extra_qubits |-> res["extra_qubits"],
                   total_states_superposed |-> res["total_states_superposed"]]]

get_state(c) == <<c.n_qubits, c.state>>

get_state_bin(c) == c.bin

\* get_range(): None when the circuit was generated for a list
get_range(c) == IF IsNone(c.min_range) THEN PyNone ELSE PyTuple(<<c.min_range, c.max_range>>)

\* the getters of a circuit that kept the dictionary data it was built from
\* and reads the request fields out of it, d being that dictionary now
getters_of_shared_data(c, d) ==
    [get_metric |-> d.metric, get_state |-> <<d.n_qubits, d.state>>,
     get_state_bin |-> d.state_bin,
     get_range |-> IF IsNone(d.min_range) THEN PyNone
                   ELSE PyTuple(<<d.min_range, d.max_range>>),
     get_distances |-> d.distances, is_nan_allowed |-> d.with_nan,
     get_extra_qubits |-> c.extra_qubits,
     get_num_superposed |-> c.total_states_superposed,
     get_qasm_code |-> c.qasm, get_qasm_version |-> d.qasm_version,
     get_ancilla_mode |-> d.ancilla_mode]

\* what every getter of circuit c returns while the dictionary of the client
\* that generated it is d: each getter returns an attribute of the circuit,
\* bound by __init__ to a value that is never modified in place
getters(c, d) ==
    [get_metric |-> c.metric, get_state |-> get_state(c),
     get_state_bin |-> get_state_bin(c), get_range |-> get_range(c),
     get_distances |-> c.distances, is_nan_allowed |-> c.with_nan,
     get_extra_qubits |-> c.extra_qubits,
     get_num_superposed |-> c.total_states_superposed,
     get_qasm_code |-> c.qasm, get_qasm_version |-> c.qasm_version,
     get_ancilla_mode |-> c.ancilla_mode]

-----------------------------------------------------------------------------
(* The operation invokers.  The outcome of a call: the exception it raised *)
(* or "none", the dictionary handed to _post (None when _post was not      *)
(* reached) and the value returned.                                        *)

\* data[key] of a decoded response
Extract(r, key) ==
    IF r.raised # "none"
    THEN [raised |-> r.raised, posted |-> r.posted, result |-> PyNone]
    ELSE IF key \notin DOMAIN r.value
    THEN [raised |-> "KeyError", posted |-> r.posted, result |-> PyNone]
    ELSE [raised |-> "none", posted |-> r.posted, result |-> r.value[key]]

calculate_extra_qubits(d, answers) ==
    Extract(_send_request(d, "extra_qubits_service", answers), "extra_qubits")

calculate_distance_range(d, answers) ==
    LET r == _send_request(d, "distances_range_service", answers)
    IN  IF r.raised # "none"
        THEN [raised |-> r.raised, posted |-> r.posted, result |-> PyNone]
        ELSE IF ~({"distances_range_min", "distances_range_max"} \subseteq DOMAIN r.value)
        THEN [raised |-> "KeyError", posted |-> r.posted, result |-> PyNone]
        ELSE [raised |-> "none", posted |-> r.posted,
              result |-> PyTuple(<<r.value["distances_range_min"],
                                   r.value["distances_range_max"]>>)]

generate_circuit(d, answers) ==
    LET r == _send_request(d, "circuit_service", answers)
    IN  IF r.raised # "none"
        THEN [raised |-> r.raised, posted |-> r.posted, result |-> PyNone]
        ELSE LET c == SuperpositionCircuit(d, r.value)
             IN  [raised |-> c.raised, posted |-> r.posted, result |-> c.obj]

calculate_num_superposed(d, answers) ==
    Extract(_send_request(d, "total_states_superposed_service", answers),
            "total_states_superposed")

-----------------------------------------------------------------------------
(* The arguments the caller passes and the answers of the service *)

\* all sequences over S of length at most n
RECURSIVE SeqsUpTo(_, _)
SeqsUpTo(S, n) ==
    IF n = 0 THEN {<<>>}
    ELSE LET shorter == SeqsUpTo(S, n - 1)
         IN  shorter \cup {Append(q, x) : q \in shorter, x \in S}

MetricArgs == {PyStr("euclidean"), PyStr(""), PyNone}

AncillaArgs == {PyStr("garbage"), PyStr("clean"), PyStr("dirty")}

QasmArgs == {PyStr("2.0"), PyStr("3.0"), PyStr("1.0")}

NanArgs == {PyBool(TRUE), PyBool(FALSE), PyInt(1)}

FewNanArgs == {PyBool(FALSE), PyInt(1)}

\* bit strings, the empty string, a string with another character, a bit
\* string followed by a line feed, and a value that is no string
BinArgs ==
    {PyStr(b) : b \in SeqsUpTo({"0", "1"}, MaxQubits)}
        \cup {PyStr(<<"0", "2">>), PyStr(<<"1", "\n">>), PyInt(1)}

\* (num_qubits, state) pairs: for each num_qubits the states from -1 up to
\* the first one out of range, and pairs with an argument left out
IndexArgs ==
    {<<PyInt(a[1]), PyInt(a[2])>> :
        a \in {b \in ((0 - 1)..MaxQubits) \X ((0 - 1)..Pow(2, MaxQubits)) :
                  b[2] <= Pow(2, Abs(b[1]))}}
        \cup {<<PyNone, PyInt(0)>>, <<PyInt(1), PyNone>>, <<PyNone, PyNone>>}

\* a few state arguments, for the behaviours that explore the distances
FewBinArgs == {PyStr(<<"0", "1">>), PyStr(<<"0", "2">>)}

FewIndexArgs == {<<PyInt(2), PyInt(3)>>, <<PyInt(2), PyInt(4)>>, <<PyInt(2), PyNone>>}

\* number literals: the three regimes and a text sp.Rational rejects
NumberTexts ==
    {<<"n", "a", "n">>, <<"i", "n", "f">>, <<"2", "/", "4">>, <<"2">>,
     <<"a", "b", "c">>}

DistanceTexts == {<<"n", "a", "n">>, <<"i", "n", "f">>, <<"1", "/", "2">>}

\* pairs of number literals, and a sequence that is too short
RangeArgs == {<<a, b>> : a \in NumberTexts, b \in NumberTexts} \cup {<<<<"2">>>>}

\* lists of number literals, lists with an element sp.Rational rejects, a
\* string and a value that is not iterable
DistancesArgs ==
    {PyList(q) : q \in SeqsUpTo(DistanceTexts, MaxDist)}
        \cup {PyList(<<<<"a", "b", "c">>>>),
              PyList(<<<<"1", "/", "2">>, <<"a", "b", "c">>>>),
              PyStr(<<"1", "/", "2">>), PyInt(1)}

\* a few distance arguments, for the behaviours that explore the states
FewRangeArgs == {<<<<"1", "/", "2">>, <<"i", "n", "f">>>>, <<<<"2">>, <<"1", "/", "2">>>>}

FewDistancesArgs ==
    {PyList(<<<<"1", "/", "2">>, <<"i", "n", "f">>>>), PyList(<<<<"a", "b", "c">>>>)}

\* the spellings of a three-letter word in every letter case
Spellings(lo, up) ==
    {<<a, b, c>> : a \in {lo[1], up[1]}, b \in {lo[2], up[2]}, c \in {lo[3], up[3]}}

NanSpellings == Spellings(<<"n", "a", "n">>, <<"N", "A", "N">>)

InfSpellings == Spellings(<<"i", "n", "f">>, <<"I", "N", "F">>)

\* the fraction literal p/q and the decimal literal p.d
FractionText(p, q) == IntToStr(p) \o <<"/">> \o IntToStr(q)

DecimalText(p, d) == IntToStr(p) \o <<".">> \o NatToStr(d)

\* the arguments of parse_number: every spelling of nan and inf, the
\* integers, fractions (zero denominators included) and one-digit decimals
\* up to MaxNum, and texts sp.Rational rejects
ParseTexts ==
    NanSpellings \cup InfSpellings
        \cup {IntToStr(p) : p \in (0 - MaxNum)..MaxNum}
        \cup {FractionText(p, q) : p \in (0 - MaxNum)..MaxNum, q \in 0..MaxNum}
        \cup {DecimalText(p, d) : p \in (0 - MaxNum)..MaxNum, d \in 0..MaxNum}
        \cup {<<"a", "b", "c">>, <<"o", "o">>, <<"-", "i", "n", "f">>, <<"1", "/">>}

\* the result object of a well-formed answer
FullResponse ==
    [extra_qubits |-> PyInt(2), total_states_superposed |-> PyInt(16),
     qasm_circuit |-> PyStr("OPENQASM"),
     distances_range_min |-> PyStr("0"), distances_range_max |-> PyStr("4")]

\* bodies: not JSON, an object without "response", a response without the
\* result fields, a well-formed answer
Bodies ==
    {[type |-> "text"], PyDict(EmptyDict), PyDict([response |-> EmptyDict]),
     PyDict([response |-> FullResponse])}

StatusCodes == {101, 200, 300, 404, 503}

\* every body with status 200; with the other statuses a body that is not
\* JSON and, unless the status is 1xx (a response that has no body), a
\* well-formed one.  300 is a 3xx status requests does not follow.
HttpAnswers ==
    {h \in [status_code : StatusCodes, body : Bodies] :
        \/ h.status_code = 200
        \/ h.body = [type |-> "text"]
        \/ h.status_code >= 200 /\ h.body = PyDict([response |-> FullResponse])}

\* a few answers: a well-formed one, one without the result fields, an
\* error status
FewHttpAnswers ==
    {[status_code |-> 200, body |-> PyDict([response |-> FullResponse])],
     [status_code |-> 200, body |-> PyDict([response |-> EmptyDict])],
     [status_code |-> 404, body |-> [type |-> "text"]]}

\* answers to a request that is attempted once
Once(Answers) == {<<http>> : http \in Answers}

\* an answer with a status of the status_forcelist
TransientAnswers == {[status_code |-> 503, body |-> [type |-> "text"]]}

\* what the service answers attempt by attempt: one answer, or a transient
\* answer and then another answer
AnswerSeqs ==
    Once(HttpAnswers) \cup {<<t, http>> : t \in TransientAnswers, http \in FewHttpAnswers}

-----------------------------------------------------------------------------
(* The state machine: a client and, in last, the latest call made on it   *)
(* with its outcome.                                                       *)

\* no call of set_state is under way
NoCalls ==
    [index |-> [pc |-> "idle", num_qubits |-> PyNone, state |-> PyNone],
     bin |-> [pc |-> "idle", state_bin |-> PyNone],
     overlapped |-> FALSE]

Init ==
    /\ data = NewData("abc")
    /\ last = [op |-> "__init__", args |-> PyTuple(<<PyStr("abc")>>),
               raised |-> "none", posted |-> PyNone, result |-> PyNone,
               status |-> PyNone, attempts |-> PyNone, served |-> PyNone]
    /\ held = PyNone
    /\ conc = NoCalls

\* a call of setter op with arguments args and outcome r
Setter(op, args, r) ==
    /\ data' = r.data
    /\ last' = [op |-> op, args |-> PyTuple(args), raised |-> r.raised,
                posted |-> PyNone, result |-> PyNone, status |-> PyNone,
                attempts |-> PyNone, served |-> PyNone]
    /\ UNCHANGED <<held, conc>>

\* the record of a call of operation op, answered by answers, with outcome
\* r: status is the status of the final response, served the statuses the
\* service had for the attempts
OperationRecord(op, r, answers) ==
    LET sent == post_from(mounted, answers, 1)
    IN  [op |-> op, args |-> PyTuple(<<>>), raised |-> r.raised,
         posted |-> r.posted, result |-> r.result,
         status |-> IF IsNone(r.posted) \/ sent.raised # "none" THEN PyNone
                    ELSE PyInt(sent.res.status_code),
         attempts |-> IF IsNone(r.posted) THEN PyNone ELSE PyInt(sent.attempts),
         served |-> IF IsNone(r.posted) THEN PyNone
                    ELSE PyTuple([i \in 1..Len(answers) |->
                                     PyInt(answers[i].status_code)])]

\* a call of operation op of service, answered by answers, with outcome r
Operation(op, service, r, answers) ==
    /\ data' = data_after_request(data, service)
    /\ last' = OperationRecord(op, r, answers)
    /\ UNCHANGED <<held, conc>>

SetMetric ==
    \E metric \in MetricArgs :
        Setter("set_metric", <<metric>>, set_metric(data, metric))

SetAncillaMode ==
    \E ancilla_mode \in AncillaArgs :
        Setter("set_ancilla_mode", <<ancilla_mode>>,
               set_ancilla_mode(data, ancilla_mode))

SetQasmVersion ==
    \E qasm_version \in QasmArgs :
        Setter("set_qasm_version", <<qasm_version>>,
               set_qasm_version(data, qasm_version))

SetStateIndex(Args) ==
    \E a \in Args :
        Setter("set_state", <<PyNone, a[1], a[2]>>,
               set_state(data, PyNone, a[1], a[2]))

\* num_qubits and state are ignored when state_bin is given
SetStateBin(Args) ==
    \E state_bin \in Args, ignored \in {PyNone, PyInt(1)} :
        Setter("set_state", <<state_bin, ignored, ignored>>,
               set_state(data, state_bin, ignored, ignored))

CanHaveNan(Args) ==
    \E value \in Args :
        Setter("can_have_nan", <<value>>, can_have_nan(data, value))

SetRange(Args) ==
    \E distance_range \in Args :
        Setter("set_range", <<distance_range>>, set_range(data, distance_range))

SetDistances(Args) ==
    \E distances \in Args :
        Setter("set_distances", <<distances>>, set_distances(data, distances))

CalculateExtraQubits(Answers) ==
    \E answers \in Answers :
        Operation("calculate_extra_qubits", "extra_qubits_service",
                  calculate_extra_qubits(data, answers), answers)

CalculateDistanceRange(Answers) ==
    \E answers \in Answers :
        Operation("calculate_distance_range", "distances_range_service",
                  calculate_distance_range(data, answers), answers)

GenerateCircuit(Answers) ==
    \E answers \in Answers :
        Operation("generate_circuit", "circuit_service",
                  generate_circuit(data, answers), answers)

CalculateNumSuperposed(Answers) ==
    \E answers \in Answers :
        Operation("calculate_num_superposed", "total_states_superposed_service",
                  calculate_num_superposed(data, answers), answers)

\* a call of generate_circuit whose caller keeps the circuit it returns
GenerateCircuitKept(Answers) ==
    \E answers \in Answers :
        LET r == generate_circuit(data, answers)
        IN  /\ data' = data_after_request(data, "circuit_service")
            /\ last' = OperationRecord("generate_circuit", r, answers)
            /\ held' = IF r.raised = "none" THEN r.result ELSE held
            /\ UNCHANGED conc

\* a call of set_state is between its checks and its return
Running(call) == call.pc \notin {"idle", "returned", "raised"}

\* the record of a set_state call that raised or returned
SetStateRecord(args, raised) ==
    [op |-> "set_state", args |-> PyTuple(args), raised |-> raised,
     posted |-> PyNone, result |-> PyNone, status |-> PyNone,
     attempts |-> PyNone, served |-> PyNone]

\* one thread calls set_state by index: the checks of lines 115-119, which
\* read the arguments only, then the call stands before line 122
CallIndex(Args) ==
    \E a \in Args :
        /\ conc.index.pc = "idle"
        /\ IF set_state(data, PyNone, a[1], a[2]).raised # "none"
           THEN /\ conc' = [conc EXCEPT !.index.pc = "raised"]
                /\ last' = SetStateRecord(<<PyNone, a[1], a[2]>>,
                                          set_state(data, PyNone, a[1], a[2]).raised)
           ELSE /\ conc' = [conc EXCEPT
                               !.index = [pc |-> "line122", num_qubits |-> a[1],
                                          state |-> a[2]],
                               !.overlapped = @ \/ Running(conc.bin)]
                /\ UNCHANGED last
        /\ UNCHANGED <<data, held>>

\* the thread in set_state by index makes its next assignment
StepIndex ==
    /\ Running(conc.index)
    /\ data' = index_write(data, conc.index.pc, conc.index.num_qubits, conc.index.state)
    /\ conc' = [conc EXCEPT !.index.pc = next_line[conc.index.pc]]
    /\ last' = IF next_line[conc.index.pc] = "returned"
               THEN SetStateRecord(<<PyNone, conc.index.num_qubits, conc.index.state>>,
                                   "none")
               ELSE last
    /\ UNCHANGED held

\* another thread calls set_state by binary: the checks of lines 126-130,
\* then the call stands before line 133
CallBin(Args) ==
    \E state_bin \in Args :
        /\ conc.bin.pc = "idle"
        /\ IF set_state(data, state_bin, PyNone, PyNone).raised # "none"
           THEN /\ conc' = [conc EXCEPT !.bin.pc = "raised"]
                /\ last' = SetStateRecord(<<state_bin, PyNone, PyNone>>,
                                          set_state(data, state_bin, PyNone, PyNone).raised)
           ELSE /\ conc' = [conc EXCEPT
                               !.bin = [pc |-> "line133", state_bin |-> state_bin],
                               !.overlapped = @ \/ Running(conc.index)]
                /\ UNCHANGED last
        /\ UNCHANGED <<data, held>>

\* the thread in set_state by binary makes its next assignment
StepBin ==
    /\ Running(conc.bin)
    /\ data' = bin_write(data, conc.bin.pc, conc.bin.state_bin)
    /\ conc' = [conc EXCEPT !.bin.pc = next_line[conc.bin.pc]]
    /\ last' = IF next_line[conc.bin.pc] = "returned"
               THEN SetStateRecord(<<conc.bin.state_bin, PyNone, PyNone>>, "none")
               ELSE last
    /\ UNCHANGED held

\* a call of the module function parse_number
ParseNumber(Texts) ==
    \E number \in Texts :
        LET r == parse_number(number)
        IN  /\ last' = [op |-> "parse_number", args |-> PyTuple(<<PyStr(number)>>),
                        raised |-> IF r.raised THEN "TypeError" ELSE "none",
                        posted |-> PyNone, result |-> r.value, status |-> PyNone,
                        attempts |-> PyNone, served |-> PyNone]
            /\ UNCHANGED <<data, held, conc>>

\* the setters of metric, ancilla mode and QASM version
Options ==
    \/ SetMetric
    \/ SetAncillaMode
    \/ SetQasmVersion

Operations(Answers) ==
    \/ CalculateExtraQubits(Answers)
    \/ CalculateDistanceRange(Answers)
    \/ GenerateCircuit(Answers)
    \/ CalculateNumSuperposed(Answers)

\* every call, the distance arguments explored
Next ==
    \/ SetStateIndex(FewIndexArgs)
    \/ SetStateBin(FewBinArgs)
    \/ SetRange(RangeArgs)
    \/ SetDistances(DistancesArgs)
    \/ CanHaveNan(FewNanArgs)
    \/ Options
    \/ Operations(Once(FewHttpAnswers))

Spec == Init /\ [][Next]_vars

\* every call, the state arguments explored
NextState ==
    \/ SetStateIndex(IndexArgs)
    \/ SetStateBin(BinArgs)
    \/ SetRange(FewRangeArgs)
    \/ SetDistances(FewDistancesArgs)
    \/ CanHaveNan(FewNanArgs)
    \/ Options
    \/ Operations(Once(FewHttpAnswers))

SpecState == Init /\ [][NextState]_vars

\* every call, the answers of the service explored
NextTransport ==
    \/ SetStateIndex(FewIndexArgs)
    \/ SetStateBin(FewBinArgs)
    \/ SetRange(FewRangeArgs)
    \/ SetDistances(FewDistancesArgs)
    \/ CanHaveNan(NanArgs)
    \/ Options
    \/ Operations(AnswerSeqs)

SpecTransport == Init /\ [][NextTransport]_vars

\* every call, the caller keeping the circuits generate_circuit returns
NextSnapshot ==
    \/ SetStateIndex(FewIndexArgs)
    \/ SetStateBin(FewBinArgs)
    \/ SetRange(FewRangeArgs)
    \/ SetDistances(FewDistancesArgs)
    \/ CanHaveNan(FewNanArgs)
    \/ Options
    \/ CalculateExtraQubits(Once(FewHttpAnswers))
    \/ CalculateDistanceRange(Once(FewHttpAnswers))
    \/ CalculateNumSuperposed(Once(FewHttpAnswers))
    \/ GenerateCircuitKept(Once(FewHttpAnswers))

SpecSnapshot == Init /\ [][NextSnapshot]_vars

\* two threads share a fresh client; one calls set_state by index and the
\* other set_state by binary, and every assignment to self._data is a step
NextConcurrent ==
    \/ CallIndex(IndexArgs)
    \/ StepIndex
    \/ CallBin(BinArgs)
    \/ StepBin

SpecConcurrent == Init /\ [][NextConcurrent]_vars

\* parse_number alone, its argument explored
NextParse == ParseNumber(ParseTexts)

SpecParse == Init /\ [][NextParse]_vars

-----------------------------------------------------------------------------
(* Properties *)

SetterOps ==
    {"set_metric", "set_ancilla_mode", "set_qasm_version", "set_state",
     "can_have_nan", "set_range", "set_distances"}

\* the service each operation invoker requests
ServiceOf ==
    [calculate_extra_qubits |-> "extra_qubits_service",
     calculate_distance_range |-> "distances_range_service",
     generate_circuit |-> "circuit_service",
     calculate_num_superposed |-> "total_states_superposed_service"]

OperationOps == DOMAIN ServiceOf

\* the operations that use the distance domain
DistanceOps ==
    {"calculate_extra_qubits", "generate_circuit", "calculate_num_superposed"}

Posted == last.op \in OperationOps /\ ~IsNone(last.posted)

\* C1: at most one state form is active: state_bin is set only when n_qubits
\* and state are both None, n_qubits is set exactly when state is, and a
\* set_state call that returns leaves the form it was given active, with the
\* values given, and the other form cleared.
StateFormsExclusive ==
    /\ ~IsNone(data.state_bin) => IsNone(data.n_qubits) /\ IsNone(data.state)
    /\ IsNone(data.n_qubits) <=> IsNone(data.state)
    /\ last.op = "set_state" /\ last.raised = "none" =>
          IF IsNone(last.args.v[1])
          THEN /\ data.n_qubits = last.args.v[2] /\ ~IsNone(data.n_qubits)
               /\ data.state = last.args.v[3] /\ ~IsNone(data.state)
               /\ IsNone(data.state_bin)
          ELSE /\ data.state_bin = last.args.v[1]
               /\ IsNone(data.n_qubits)
               /\ IsNone(data.state)

\* set_state by index has just returned on a client
StateIndexJustSet ==
    /\ last.op = "set_state" /\ last.raised = "none"
    /\ IsNone(last.args.v[1])
    /\ data.n_qubits = PyInt(2) /\ data.state = PyInt(3)

\* C2: the explicit distance list and the range are never both set, min_range
\* is None exactly when max_range is, a set_range call that returns leaves
\* the range set and the list cleared, a set_distances call that returns
\* leaves the list set and the range cleared, and a request of extra_qubits,
\* circuit or total_states_superposed carries either distances or
\* min_range and max_range, never both.
DistanceFormsExclusive ==
    /\ ~IsNone(data.distances) => IsNone(data.min_range) /\ IsNone(data.max_range)
    /\ IsNone(data.min_range) <=> IsNone(data.max_range)
    /\ last.op = "set_range" /\ last.raised = "none" =>
          IsNone(data.distances) /\ ~IsNone(data.min_range) /\ ~IsNone(data.max_range)
    /\ last.op = "set_distances" /\ last.raised = "none" =>
          ~IsNone(data.distances) /\ IsNone(data.min_range) /\ IsNone(data.max_range)
    /\ Posted /\ last.op \in DistanceOps =>
          LET fields == DOMAIN last.posted.v
          IN  \/ "distances" \in fields /\ {"min_range", "max_range"} \cap fields = {}
              \/ "distances" \notin fields /\ {"min_range", "max_range"} \subseteq fields

\* a request that carries a list of two distances has been sent
ListRequestSent ==
    /\ Posted /\ last.op = "generate_circuit"
    /\ "distances" \in DOMAIN last.posted.v
    /\ Len(data.distances.v) = 2

\* C3: generate_circuit, calculate_extra_qubits and calculate_num_superposed
\* raise ValueError without reaching _post whenever metric is unset, or no
\* state form is set, or with_nan is unset, or no distance form is set.
PreconditionsGuardPost ==
    last.op \in DistanceOps
        /\ (\/ IsNone(data.metric)
            \/ IsNone(data.state_bin) /\ IsNone(data.n_qubits) /\ IsNone(data.state)
            \/ IsNone(data.with_nan)
            \/ IsNone(data.distances) /\ IsNone(data.min_range) /\ IsNone(data.max_range))
        => last.raised = "ValueError" /\ IsNone(last.posted) /\ IsNone(last.result)

\* generate_circuit has been called with metric, state and distances set and
\* with_nan never set
CircuitBeforeCanHaveNan ==
    /\ last.op = "generate_circuit"
    /\ ~IsNone(data.metric) /\ ~IsNone(data.n_qubits) /\ ~IsNone(data.distances)
    /\ IsNone(data.with_nan)


\* C4: a setter call that raises leaves every field of self._data as it was
\* before the call.
FailedSetterLeavesData ==
    [][last'.op \in SetterOps /\ last'.raised # "none" => data' = data]_vars

\* set_distances has raised on its second element on a client whose range
\* is set
SetDistancesFailedOnRange ==
    /\ last.op = "set_distances" /\ last.raised = "TypeError"
    /\ Len(last.args.v[1].v) = 2
    /\ ~IsNone(data.min_range)

\* metric and a state form are set and, for the operations that use the
\* distance domain, with_nan and a distance form are set
PassesPreconditions(op) ==
    /\ ~IsNone(data.metric)
    /\ ~IsNone(data.state_bin) \/ ~IsNone(data.n_qubits)
    /\ op \in DistanceOps =>
          /\ ~IsNone(data.with_nan)
          /\ ~IsNone(data.distances) \/ ~IsNone(data.min_range)

\* C5: every operation called on a client that passes its preconditions
\* builds a request, and a request carries exactly one state encoding, the
\* one active in the client: state_bin alone, or n_qubits together with state.
RequestStateEncoding ==
    last.op \in OperationOps =>
        /\ PassesPreconditions(last.op) => ~IsNone(last.posted)
        /\ ~IsNone(last.posted) =>
              LET values == last.posted.v
                  fields == DOMAIN values
              IN  IF ~IsNone(data.state_bin)
                  THEN /\ "state_bin" \in fields
                       /\ values["state_bin"] = data.state_bin
                       /\ {"n_qubits", "state"} \cap fields = {}
                  ELSE /\ "state_bin" \notin fields
                       /\ {"n_qubits", "state"} \subseteq fields
                       /\ values["n_qubits"] = data.n_qubits /\ ~IsNone(data.n_qubits)
                       /\ values["state"] = data.state /\ ~IsNone(data.state)

\* a request with the binary form has been sent
BinRequestSent ==
    /\ Posted /\ last.op = "calculate_distance_range"
    /\ "state_bin" \in DOMAIN last.posted.v
    /\ data.state_bin = PyStr(<<"1", "0">>)

\* t is the wire text of x: "nan" for sp.nan, "inf" for float('inf'), and for
\* a Rational p/q the literal of p, followed when q # 1 by "/" and the
\* literal of q
IsWireText(t, x) ==
    CASE x.type = "NaN" -> t = <<"n", "a", "n">>
      [] x.type = "float" -> t = <<"i", "n", "f">>
      [] x.type = "Rational" ->
            \/ x.q = 1 /\ IsIntLit(t) /\ IntLitVal(t) = x.p
            \/ /\ x.q # 1
               /\ \E k \in 2..(Len(t) - 1) :
                     /\ t[k] = "/"
                     /\ IsIntLit(SubSeq(t, 1, k - 1))
                     /\ IntLitVal(SubSeq(t, 1, k - 1)) = x.p
                     /\ AllDigits(SubSeq(t, k + 1, Len(t)))
                     /\ DigitsToNat(SubSeq(t, k + 1, Len(t))) = x.q

\* C6: in a request of extra_qubits, circuit or total_states_superposed, an
\* active list is carried as distances, the wire texts of the stored values
\* in the same order and number, without min_range and max_range; an active
\* range is carried as the wire texts min_range and max_range, without
\* distances.
DistancesRendered ==
    Posted /\ last.op \in DistanceOps =>
        LET values == last.posted.v
            fields == DOMAIN values
        IN  IF ~IsNone(data.distances)
            THEN /\ "distances" \in fields
                 /\ {"min_range", "max_range"} \cap fields = {}
                 /\ values["distances"].type = "list"
                 /\ Len(values["distances"].v) = Len(data.distances.v)
                 /\ \A i \in 1..Len(data.distances.v) :
                       /\ values["distances"].v[i].type = "str"
                       /\ IsWireText(values["distances"].v[i].v, data.distances.v[i])
            ELSE /\ "distances" \notin fields
                 /\ {"min_range", "max_range"} \subseteq fields
                 /\ values["min_range"].type = "str"
                 /\ values["max_range"].type = "str"
                 /\ IsWireText(values["min_range"].v, data.min_range)
                 /\ IsWireText(values["max_range"].v, data.max_range)

\* a request with distances = ["1/2", "inf"] has been sent
HalfInfRequestSent ==
    /\ Posted /\ last.op = "calculate_extra_qubits"
    /\ "distances" \in DOMAIN last.posted.v
    /\ last.posted.v["distances"] =
          PyList(<<PyStr(<<"1", "/", "2">>), PyStr(<<"i", "n", "f">>)>>)

\* the fields of a request of operation op, given the active forms
ExpectedFields(op) ==
    {"token", "metric", "service"}
        \cup (IF ~IsNone(data.state_bin) THEN {"state_bin"} ELSE {"n_qubits", "state"})
        \cup (IF op \notin DistanceOps THEN {}
              ELSE {"ancilla_mode", "qasm_version", "with_nan"}
                      \cup (IF ~IsNone(data.distances) THEN {"distances"}
                            ELSE {"min_range", "max_range"}))

\* C7: the fields of a request depend only on the operation and the active
\* forms; every request carries token, metric and the service identifier
\* with the client's values; a distances_range_service request carries none
\* of with_nan, distances, min_range, max_range, ancilla_mode, qasm_version
\* and is built with only metric and a state set; the requests of the other
\* three operations also carry ancilla_mode, qasm_version and with_nan.
RequestFields ==
    last.op \in OperationOps =>
        /\ /\ last.op = "calculate_distance_range"
           /\ ~IsNone(data.metric)
           /\ ~IsNone(data.state_bin) \/ ~IsNone(data.n_qubits)
           => ~IsNone(last.posted)
        /\ ~IsNone(last.posted) =>
              LET values == last.posted.v
              IN  /\ DOMAIN values = ExpectedFields(last.op)
                  /\ values["token"] = data.token
                  /\ values["metric"] = data.metric
                  /\ values["service"] = PyStr(ServiceOf[last.op])
                  /\ last.op \in DistanceOps =>
                        /\ values["ancilla_mode"] = data.ancilla_mode
                        /\ values["qasm_version"] = data.qasm_version
                        /\ values["with_nan"] = data.with_nan

\* a distances_range_service request has been sent by a client with only
\* metric and a state set
RangeServiceRequestSent ==
    /\ Posted /\ last.op = "calculate_distance_range"
    /\ IsNone(data.with_nan) /\ IsNone(data.distances) /\ IsNone(data.min_range)
    /\ DOMAIN last.posted.v = {"token", "metric", "service", "n_qubits", "state"}


\* the number a string of the characters 0 and 1 denotes in base 2
Base2Value(b) ==
    CHOOSE n \in 0..(Pow(2, Len(b)) - 1) :
        \A i \in 1..Len(b) :
            (n \div Pow(2, Len(b) - i)) % 2 = (IF b[i] = "1" THEN 1 ELSE 0)

\* C8: a circuit result exposes both state forms: from the index form
\* (n >= 1, 0 <= s < 2^n), get_state() = (n, s) and get_state_bin() is a
\* string of exactly n characters 0 and 1 whose base-2 value is s; from a
\* binary form b of the characters 0 and 1, get_state_bin() = b and
\* get_state() = (len(b), base-2 value of b).
CircuitStateForms ==
    last.op = "generate_circuit" /\ last.raised = "none" =>
        LET c == last.result
        IN  /\ c.type = "SuperpositionCircuit"
            /\ IsNone(data.state_bin) /\ data.n_qubits.v >= 1
                  /\ 0 <= data.state.v /\ data.state.v < Pow(2, data.n_qubits.v)
               => /\ get_state(c) = <<data.n_qubits, data.state>>
                  /\ get_state_bin(c).type = "str"
                  /\ Len(get_state_bin(c).v) = data.n_qubits.v
                  /\ \A i \in 1..Len(get_state_bin(c).v) :
                        get_state_bin(c).v[i] \in {"0", "1"}
                  /\ Base2Value(get_state_bin(c).v) = data.state.v
            /\ ~IsNone(data.state_bin)
                  /\ (\A i \in 1..Len(data.state_bin.v) : data.state_bin.v[i] \in {"0", "1"})
               => /\ get_state_bin(c) = data.state_bin
                  /\ get_state(c) = <<PyInt(Len(data.state_bin.v)),
                                      PyInt(Base2Value(data.state_bin.v))>>

\* generate_circuit has returned a circuit for state 1 over 2 qubits
CircuitFromIndex ==
    /\ last.op = "generate_circuit" /\ last.raised = "none"
    /\ data.n_qubits = PyInt(2) /\ data.state = PyInt(1)
    /\ get_state_bin(last.result) = PyStr(<<"0", "1">>)

\* the endpoints set_range was last called with, parsed
LastEndpoints ==
    [min |-> parse_number(last.args.v[1][1]), max |-> parse_number(last.args.v[1][2])]

\* set_range was last called, with two endpoints that parse
RangeCallParsed ==
    /\ last.op = "set_range"
    /\ Len(last.args.v[1]) = 2
    /\ ~LastEndpoints.min.raised /\ ~LastEndpoints.max.raised

\* p/q <= r/s for Rationals in lowest terms with positive denominators
RationalLeq(a, b) == a.p * b.q <= b.p * a.q

\* C9: set_range raises whenever both parsed endpoints are Rational and
\* min > max, and an active range whose endpoints are both Rational has
\* min_range <= max_range.
FiniteRangeOrdered ==
    /\ /\ ~IsNone(data.min_range)
       /\ data.min_range.type = "Rational" /\ data.max_range.type = "Rational"
       => RationalLeq(data.min_range, data.max_range)
    /\ /\ RangeCallParsed
       /\ LastEndpoints.min.value.type = "Rational"
       /\ LastEndpoints.max.value.type = "Rational"
       /\ ~RationalLeq(LastEndpoints.min.value, LastEndpoints.max.value)
       => last.raised = "ValueError"

\* set_range(("2", "2/4")) has raised
FiniteRangeRejected ==
    /\ last.op = "set_range" /\ last.raised = "ValueError"
    /\ last.args.v[1] = <<<<"2">>, <<"2", "/", "4">>>>

EmptyListRejected ==
    /\ /\ last.op = "set_distances"
       /\ last.args.v[1].type = "list"
       /\ Len(last.args.v[1].v) = 0
       => last.raised # "none"
    /\ ~IsNone(data.distances) => Len(data.distances.v) > 0
    /\ Posted /\ "distances" \in DOMAIN last.posted.v =>
          Len(last.posted.v["distances"].v) > 0

\* C12 as stated: set_state by binary raises for the empty string and for
\* every string with a character other than 0 and 1, and an active state_bin
\* is a non-empty string of the characters 0 and 1.
BinStateIsBits ==
    /\ /\ last.op = "set_state"
       /\ ~IsNone(last.args.v[1])
       /\ last.args.v[1].type = "str"
       /\ \/ Len(last.args.v[1].v) = 0
          \/ \E i \in 1..Len(last.args.v[1].v) : last.args.v[1].v[i] \notin {"0", "1"}
       => last.raised # "none"
    /\ ~IsNone(data.state_bin) =>
          /\ Len(data.state_bin.v) > 0
          /\ \A i \in 1..Len(data.state_bin.v) : data.state_bin.v[i] \in {"0", "1"}

\* n >= 1 and 0 <= k < 2^n
InIndexDomain(n, k) == n >= 1 /\ 0 <= k /\ k < Pow(2, n)

\* C13 as stated: an active index form has n_qubits >= 1 and
\* 0 <= state < 2^n_qubits, and set_state by index raises for every pair
\* outside that domain.
IndexStateInDomain ==
    /\ ~IsNone(data.n_qubits) => InIndexDomain(data.n_qubits.v, data.state.v)
    /\ /\ last.op = "set_state"
       /\ IsNone(last.args.v[1])
       /\ ~IsNone(last.args.v[2]) /\ ~IsNone(last.args.v[3])
       /\ ~InIndexDomain(last.args.v[2].v, last.args.v[3].v)
       => last.raised # "none"

\* the value p/q: a Rational in lowest terms with a positive denominator
IsRationalOf(v, p, q) ==
    /\ v.type = "Rational"
    /\ v.q > 0
    /\ Gcd(Abs(v.p), v.q) = 1
    /\ v.p * q = p * v.q

\* C14: parse_number returns sp.nan for "nan" in any letter case and for
\* "0/0", float('inf') for "inf" in any letter case and the Rational p/q,
\* in lowest terms, for an integer, fraction or decimal literal; and the
\* text str renders of any value it returns parses to that same value.
ParseRegimesRoundTrip ==
    last.op = "parse_number" =>
        LET number == last.args.v[1].v
            v      == last.result
        IN  /\ number \in NanSpellings \cup {<<"0", "/", "0">>} =>
                  last.raised = "none" /\ v = SpNaN
            /\ number \in InfSpellings => last.raised = "none" /\ v = FloatInf
            /\ \A p \in (0 - MaxNum)..MaxNum :
                  /\ number = IntToStr(p) =>
                        last.raised = "none" /\ IsRationalOf(v, p, 1)
                  /\ \A q \in 1..MaxNum :
                        number = FractionText(p, q) =>
                            last.raised = "none" /\ IsRationalOf(v, p, q)
                  /\ \A d \in 0..MaxNum :
                        number = DecimalText(p, d) =>
                            /\ last.raised = "none"
                            /\ IsRationalOf(v, IF p < 0 THEN 10 * p - d ELSE 10 * p + d, 10)
            /\ last.raised = "none" =>
                  parse_number(str(v)) = [raised |-> FALSE, value |-> v]

\* parse_number("2/4") returned 1/2, which is rendered "1/2"
HalfParsed ==
    /\ last.op = "parse_number"
    /\ last.args.v[1].v = <<"2", "/", "4">>
    /\ last.result = SpRational(1, 2)
    /\ str(last.result) = <<"1", "/", "2">>

NonSuccessIsError ==
    /\ last.op \in OperationOps
    /\ ~IsNone(last.status)
    /\ last.status.v \div 100 # 2
    => last.raised # "none"

\* C17: a call of any of the four operations, whether it returns, fails a
\* precondition, fails in the transport or fails to decode the answer,
\* leaves every field of the client as it was: the request is shaped on a
\* copy.
OperationsLeaveData ==
    [][last'.op \in OperationOps => data' = data]_vars

\* a list request was posted with its distances rendered and without the
\* range fields, the answer could not be decoded, and the client still
\* holds the parsed tuple and both range fields
ClientKeepsUnshapedData ==
    /\ Posted
    /\ last.raised = "JSONDecodeError"
    /\ "distances" \in DOMAIN last.posted.v
    /\ "min_range" \notin DOMAIN last.posted.v
    /\ last.posted.v["distances"].type = "list"
    /\ data.distances.type = "tuple"
    /\ DOMAIN data = DOMAIN NewData("abc")

\* the preconditions of operation op hold of dictionary d
PreconditionsHoldIn(d, op) ==
    /\ ~IsNone(d.metric)
    /\ ~IsNone(d.state_bin) \/ ~IsNone(d.n_qubits)
    /\ op \in DistanceOps =>
          /\ ~IsNone(d.with_nan)
          /\ ~IsNone(d.distances) \/ ~IsNone(d.min_range)

\* C18: the preconditions of an operation, once they hold, hold after every
\* later call: no setter, successful or failed, returns metric, with_nan,
\* the state encoding or the distance domain to unset.
PreconditionsStable ==
    [][\A op \in OperationOps :
          PreconditionsHoldIn(data, op) => PreconditionsHoldIn(data', op)]_vars

\* set_metric(None) was refused on a client ready for generate_circuit, and
\* the client is still ready
UnsetRefused ==
    /\ last.op = "set_metric"
    /\ last.args.v[1] = PyNone
    /\ last.raised = "ValueError"
    /\ PreconditionsHoldIn(data, "generate_circuit")

\* C19 as stated: when the service answers the first attempt with 500, 502,
\* 503 or 504 and the following attempt with a 2xx status, the request is
\* attempted again and the operation does not end in a transport error.
TransientRetried ==
    /\ last.op \in OperationOps
    /\ ~IsNone(last.served)
    /\ Len(last.served.v) = 2
    /\ last.served.v[1].v \in {500, 502, 503, 504}
    /\ last.served.v[2].v \div 100 = 2
    => /\ last.attempts.v >= 2
       /\ last.raised \notin {"HTTPError", "RetryError"}

\* both calls of set_state have raised or returned
BothCallsOver ==
    /\ conc.index.pc \in {"returned", "raised"}
    /\ conc.bin.pc \in {"returned", "raised"}

\* C20: with set_state by index and set_state by binary called from two
\* threads and every field write a separate step, the state forms stay
\* exclusive when the calls do not overlap (the client then holds what the
\* call that returned last would have set on its own), so the interleaving
\* that leaves both forms set is one of overlapping calls.
SequentialCallsExclusive ==
    BothCallsOver /\ ~conc.overlapped =>
        /\ ~IsNone(data.state_bin) => IsNone(data.n_qubits) /\ IsNone(data.state)
        /\ IsNone(data.n_qubits) <=> IsNone(data.state)
        /\ last.op = "set_state" /\ last.raised = "none" =>
              data = set_state(NewData("abc"), last.args.v[1], last.args.v[2],
                               last.args.v[3]).data

\* both calls have returned without an exception and the client holds
\* n_qubits, state and state_bin at once
BothFormsSet ==
    /\ conc.index.pc = "returned"
    /\ conc.bin.pc = "returned"
    /\ ~IsNone(data.n_qubits) /\ ~IsNone(data.state) /\ ~IsNone(data.state_bin)

====
